---- MODULE Spec2Model ----
(***************************************************************************)
(* Model of library/crypt_dev.py: the Ansible module that reconciles one   *)
(* LUKS container (create / open / close / add key / remove key / remove)  *)
(* with a declared state.                                                  *)
(*                                                                         *)
(* The external tools (cryptsetup, lsblk, wipefs) act on a system state    *)
(*   isLuks : the devices that carry a LUKS header                         *)
(*   opened : device -> name of the mapping open on it (or None)           *)
(* Three specifications share the definitions of the module's code:       *)
(*   Spec      : sequences of run_module() invocations                     *)
(*   SpecCond  : one call of one Conditions method with module.params set  *)
(*               directly (as tests/unit/crypt_dev_test.py does)           *)
(*   SpecQuery : one call of one CryptHandler query with _run_command      *)
(*               patched to return a given result                          *)
(***************************************************************************)
EXTENDS Integers, Sequences, FiniteSets, TLC

VARIABLES
    args,      \* the parameters given by the caller (None = not supplied)
    isLuks,    \* system: devices hosting a LUKS header
    opened,    \* system: device -> open mapping name, or None
    pc,        \* position of run_module / of the unit call
    result,    \* run_module's result dict: [changed, name]
    outcome,   \* how the run ended: none / exit_json / fail_json / exception
    msg,       \* msg handed to fail_json, or text of the unhandled exception
    cmds,      \* external commands issued so far in this run / call
    sys0,      \* system state at the start of the run
    rerun,     \* this run repeats the args of a successful previous run
    local,     \* run_luks_remove's local variable name
    ret,       \* SpecCond: the return of the called Conditions method
    mock       \* SpecQuery: the result the patched _run_command returns

vars == <<args, isLuks, opened, pc, result, outcome, msg, cmds, sys0, rerun,
          local, ret, mock>>

(***************************************************************************)
(* Bounds and value universes                                              *)
(***************************************************************************)
NumNames == 2

None == "None"

\* two devices: the one a run works on and one that another mapping can sit on
DeviceUUIDs == ("/dev/loop0" :> "uuid0") @@ ("/dev/loop1" :> "uuid1")
NamePool == <<"mycrypt", "other", "third", "fourth">>

Devices == DOMAIN DeviceUUIDs
Names == {NamePool[i] : i \in 1..NumNames}

UUIDOf(device) == DeviceUUIDs[device]

\* every name a mapping can carry: a declared one or a generated one
LiveNames == Names \cup {"luks-" \o UUIDOf(d) : d \in Devices}

Opt(S) == S \cup {None}

\* what a caller can pass to the module
Args ==
    [device : Opt(Devices),
     state : {None, "present", "absent", "bogus"},
     open : {None, "True", "False"},
     name : Opt(Names),
     key : Opt({"/vault/keyfile"}),
     new_key : Opt({"/vault/keyfile2"}),
     remove_key : Opt({"/vault/keyfile2"})]

\* module.params as the unit tests set them: any value, no defaults applied
UnitParams == {a \in Args : a.state \in {"present", "absent"}}

(***************************************************************************)
(* run_module: argument_spec defaults                                      *)
(***************************************************************************)
\* argument_spec without default=False for open
module_args_NoOpenDefault(a) ==
    [a EXCEPT !.state = IF a.state = None THEN "present" ELSE a.state]

module_args(a) ==
    [a EXCEPT !.state = IF a.state = None THEN "present" ELSE a.state,
              !.open = IF a.open = None THEN "False" ELSE a.open]

(***************************************************************************)
(* External tools: command results                                         *)
(***************************************************************************)
\* one entry of the command log
Cmd(by, tool, dev, name, rc) ==
    [by |-> by, tool |-> tool, dev |-> dev, name |-> name, rc |-> rc]

ImperativeTools ==
    {"luksFormat", "open", "close", "wipefs", "luksAddKey", "luksRemoveKey"}

\* lsblk <device> -nlo type,name : one row for the device, one per mapping
LsblkTypeName(device, ok) ==
    IF ~ok THEN [rc |-> 1, out |-> <<>>]
    ELSE [rc |-> 0,
          out |-> <<[f1 |-> "loop", f2 |-> device]>> \o
                  (IF opened[device] # None
                   THEN <<[f1 |-> "crypt", f2 |-> opened[device]]>>
                   ELSE <<>>)]

\* lsblk -n <device> -o UUID
LsblkUUID(device, ok) ==
    IF ~ok THEN [rc |-> 1, out |-> ""]
    ELSE [rc |-> 0, out |-> UUIDOf(device)]

\* cryptsetup status <name> : exit 0 and a 'device:' row iff name is active
CryptsetupStatus(name) ==
    IF \E d \in Devices : opened[d] = name /\ name # None
    THEN [rc |-> 0,
          out |-> <<[f1 |-> "type:", f2 |-> "LUKS1"],
                    [f1 |-> "device:",
                     f2 |-> CHOOSE d \in Devices : opened[d] = name]>>]
    ELSE [rc |-> 4, out |-> <<>>]

\* cryptsetup isLuks <device>
CryptsetupIsLuks(device) == IF device \in isLuks THEN 0 ELSE 1

\* can the imperative tool exit 0 in the current system state
ToolCanSucceed(tool, device, name) ==
    CASE tool = "luksFormat" -> device \in Devices /\ opened[device] = None
      [] tool = "open" -> /\ device \in isLuks
                          /\ opened[device] = None
                          /\ name # None
                          /\ \A d \in Devices : opened[d] # name
      [] tool = "close" -> name # None /\ \E d \in Devices : opened[d] = name
      [] tool = "wipefs" -> device \in Devices
      [] tool = "luksAddKey" -> device \in isLuks
      [] tool = "luksRemoveKey" -> device \in isLuks
      [] OTHER -> FALSE

\* exit codes the imperative tool can produce
ToolExits(tool, device, name) ==
    IF ToolCanSucceed(tool, device, name) THEN {0, 1} ELSE {1}

\* system state after the tool exited 0
IsLuksAfter(tool, device) ==
    CASE tool = "luksFormat" -> isLuks \cup {device}
      [] tool = "wipefs" -> isLuks \ {device}
      [] OTHER -> isLuks

OpenedAfter(tool, device, name) ==
    CASE tool = "open" -> [opened EXCEPT ![device] = name]
      [] tool = "close" -> [d \in Devices |->
                               IF opened[d] = name THEN None ELSE opened[d]]
      [] OTHER -> opened

(***************************************************************************)
(* CryptHandler: queries                                                   *)
(***************************************************************************)
\* re.search of '\s*<word>\s+([^\s]*)\s*' : first row whose first field is
\* the word; yields the second field, or NoMatch (m is None)
NoMatch == "NoMatch"
RegexSearch(word, out) ==
    IF \E i \in 1..Len(out) : out[i].f1 = word
    THEN out[CHOOSE i \in 1..Len(out) :
                /\ out[i].f1 = word
                /\ \A j \in 1..(i - 1) : out[j].f1 # word].f2
    ELSE NoMatch

LUKS_NAME_REGEX == "crypt"
LUKS_DEVICE_REGEX == "device:"

\* a query returns [raised, val]: raised names the exception, "" if none
\* the part of each query that follows _run_command, on its result r
is_luks_result(r) == r.rc = 0

name_by_device_result(r) ==
    LET m == RegexSearch(LUKS_NAME_REGEX, r.out)
    IN  IF r.rc # 0 THEN [raised |-> "ValueError", val |-> None]
        \* m.group(1) on None raises AttributeError, which is caught
        ELSE IF m = NoMatch THEN [raised |-> "", val |-> None]
        ELSE [raised |-> "", val |-> m]

device_by_name_result(r) ==
    LET m == RegexSearch(LUKS_DEVICE_REGEX, r.out)
    IN  IF r.rc # 0 THEN [raised |-> "", val |-> None]
        \* m.group(1) on None raises AttributeError, which nothing catches
        ELSE IF m = NoMatch THEN [raised |-> "AttributeError", val |-> None]
        ELSE [raised |-> "", val |-> m]

is_luks(device) ==
    is_luks_result([rc |-> CryptsetupIsLuks(device), out |-> <<>>])

get_container_name_by_device(device, ok) ==
    name_by_device_result(LsblkTypeName(device, ok))

get_container_device_by_name(name) ==
    device_by_name_result(CryptsetupStatus(name))

generate_luks_name(device, ok) ==
    LET r == LsblkUUID(device, ok)
    IN  IF r.rc # 0 THEN [raised |-> "ValueError", val |-> None]
        ELSE [raised |-> "", val |-> "luks-" \o r.out]

(***************************************************************************)
(* Conditions: the six predicates.  Each yields                            *)
(*   res  : RUN (True), SKIP (False), ABORT (fail_json), ERROR (exception) *)
(*   msg  : the fail_json message or the exception                         *)
(*   cmds : the commands it issued                                         *)
(***************************************************************************)
Decision(res, m, c) == [res |-> res, msg |-> m, cmds |-> c]

MsgAbsentOpen == "Contradiction in setup: LUKS set to be 'absent' and 'open'."
MsgDifferentName == "LUKS container is already opened under different name"
MsgAbsentAddKey == "Contradiction in setup: Asking to add a key to absent LUKS."
MsgAbsentRemoveKey ==
    "Contradiction in setup: Asking to remove a key from absent LUKS."
ContradictionMsgs ==
    {MsgAbsentOpen, MsgDifferentName, MsgAbsentAddKey, MsgAbsentRemoveKey}

\* luks_create that forgets the state == 'present' conjunct
luks_create_AnyState(p) ==
    IF p.device # None /\ p.key # None
    THEN Decision(IF ~is_luks(p.device) THEN "RUN" ELSE "SKIP", "",
                  <<Cmd("luks_create", "isLuks", p.device, None,
                        CryptsetupIsLuks(p.device))>>)
    ELSE Decision("SKIP", "", <<>>)

\* luks_create that forgets the key conjunct
luks_create_NoKey(p) ==
    IF p.device # None /\ p.state = "present"
    THEN Decision(IF ~is_luks(p.device) THEN "RUN" ELSE "SKIP", "",
                  <<Cmd("luks_create", "isLuks", p.device, None,
                        CryptsetupIsLuks(p.device))>>)
    ELSE Decision("SKIP", "", <<>>)

luks_create(p) ==
    IF p.device # None /\ p.key # None /\ p.state = "present"
    THEN Decision(IF ~is_luks(p.device) THEN "RUN" ELSE "SKIP", "",
                  <<Cmd("luks_create", "isLuks", p.device, None,
                        CryptsetupIsLuks(p.device))>>)
    ELSE Decision("SKIP", "", <<>>)

\* luks_open that treats any open container as already satisfied
luks_open_AnyName(p, ok) ==
    IF p.device = None \/ p.key = None \/ p.open = "False"
    THEN Decision("SKIP", "", <<>>)
    ELSE IF p.state = "absent"
    THEN Decision("ABORT", MsgAbsentOpen, <<>>)
    ELSE LET q == get_container_name_by_device(p.device, ok)
             c == <<Cmd("luks_open", "lsblk", p.device, None,
                        LsblkTypeName(p.device, ok).rc)>>
         IN  IF q.raised # "" THEN Decision("ERROR", q.raised, c)
             ELSE IF q.val # None THEN Decision("SKIP", "", c)
             ELSE Decision("RUN", "", c)

\* luks_open that queries the name before it looks at state
luks_open_QueryFirst(p, ok) ==
    IF p.device = None \/ p.key = None \/ p.open = "False"
    THEN Decision("SKIP", "", <<>>)
    ELSE LET q == get_container_name_by_device(p.device, ok)
             c == <<Cmd("luks_open", "lsblk", p.device, None,
                        LsblkTypeName(p.device, ok).rc)>>
         IN  IF q.raised # "" THEN Decision("ERROR", q.raised, c)
             ELSE IF p.state = "absent"
             THEN Decision("ABORT", MsgAbsentOpen, c)
             ELSE IF q.val # None
             THEN IF q.val # p.name
                  THEN Decision("ABORT", MsgDifferentName, c)
                  ELSE Decision("SKIP", "", c)
             ELSE Decision("RUN", "", c)

\* luks_open that looks at state before the three preconditions
luks_open_AbsentFirst(p, ok) ==
    IF p.state = "absent"
    THEN Decision("ABORT", MsgAbsentOpen, <<>>)
    ELSE IF p.device = None \/ p.key = None \/ p.open = "False"
    THEN Decision("SKIP", "", <<>>)
    ELSE LET q == get_container_name_by_device(p.device, ok)
             c == <<Cmd("luks_open", "lsblk", p.device, None,
                        LsblkTypeName(p.device, ok).rc)>>
         IN  IF q.raised # "" THEN Decision("ERROR", q.raised, c)
             ELSE IF q.val # None
             THEN IF q.val # p.name
                  THEN Decision("ABORT", MsgDifferentName, c)
                  ELSE Decision("SKIP", "", c)
             ELSE Decision("RUN", "", c)

\* luks_open that takes the generated name for the declared one when no
\* name is declared
luks_open_AutoName(p, ok) ==
    IF p.device = None \/ p.key = None \/ p.open = "False"
    THEN Decision("SKIP", "", <<>>)
    ELSE IF p.state = "absent"
    THEN Decision("ABORT", MsgAbsentOpen, <<>>)
    ELSE LET q == get_container_name_by_device(p.device, ok)
             c == <<Cmd("luks_open", "lsblk", p.device, None,
                        LsblkTypeName(p.device, ok).rc)>>
             n == IF p.name = None THEN "luks-" \o UUIDOf(p.device)
                  ELSE p.name
         IN  IF q.raised # "" THEN Decision("ERROR", q.raised, c)
             ELSE IF q.val # None
             THEN IF q.val # n
                  THEN Decision("ABORT", MsgDifferentName, c)
                  ELSE Decision("SKIP", "", c)
             ELSE Decision("RUN", "", c)

luks_open(p, ok) ==
    IF p.device = None \/ p.key = None \/ p.open = "False"
    THEN Decision("SKIP", "", <<>>)
    ELSE IF p.state = "absent"
    THEN Decision("ABORT", MsgAbsentOpen, <<>>)
    ELSE LET q == get_container_name_by_device(p.device, ok)
             c == <<Cmd("luks_open", "lsblk", p.device, None,
                        LsblkTypeName(p.device, ok).rc)>>
         IN  IF q.raised # "" THEN Decision("ERROR", q.raised, c)
             ELSE IF q.val # None
             THEN IF q.val # p.name
                  THEN Decision("ABORT", MsgDifferentName, c)
                  ELSE Decision("SKIP", "", c)
             ELSE Decision("RUN", "", c)

\* luks_close that does not look at state
luks_close_AnyState(p, ok) ==
    IF (p.name = None /\ p.device = None) \/ p.open = "True"
    THEN Decision("SKIP", "", <<>>)
    ELSE LET qd == IF p.device # None
                   THEN get_container_name_by_device(p.device, ok)
                   ELSE [raised |-> "", val |-> None]
             cd == IF p.device # None
                   THEN <<Cmd("luks_close", "lsblk", p.device, None,
                              LsblkTypeName(p.device, ok).rc)>>
                   ELSE <<>>
             qn == IF p.name # None
                   THEN get_container_device_by_name(p.name)
                   ELSE [raised |-> "", val |-> None]
             cn == IF p.name # None
                   THEN <<Cmd("luks_close", "status", None, p.name,
                              CryptsetupStatus(p.name).rc)>>
                   ELSE <<>>
             luks_is_open == IF p.name # None THEN qn.val # None
                             ELSE qd.val # None
         IN  IF qd.raised # "" THEN Decision("ERROR", qd.raised, cd)
             ELSE IF qn.raised # "" THEN Decision("ERROR", qn.raised, cd \o cn)
             ELSE Decision(IF luks_is_open THEN "RUN" ELSE "SKIP", "",
                           cd \o cn)

\* luks_close that takes the container for open without asking
luks_close_NoQuery(p, ok) ==
    IF (p.name = None /\ p.device = None) \/ p.open = "True"
       \/ p.state = "absent"
    THEN Decision("SKIP", "", <<>>)
    ELSE Decision("RUN", "", <<>>)

luks_close(p, ok) ==
    IF (p.name = None /\ p.device = None) \/ p.open = "True"
       \/ p.state = "absent"
    THEN Decision("SKIP", "", <<>>)
    ELSE LET qd == IF p.device # None
                   THEN get_container_name_by_device(p.device, ok)
                   ELSE [raised |-> "", val |-> None]
             cd == IF p.device # None
                   THEN <<Cmd("luks_close", "lsblk", p.device, None,
                              LsblkTypeName(p.device, ok).rc)>>
                   ELSE <<>>
             qn == IF p.name # None
                   THEN get_container_device_by_name(p.name)
                   ELSE [raised |-> "", val |-> None]
             cn == IF p.name # None
                   THEN <<Cmd("luks_close", "status", None, p.name,
                              CryptsetupStatus(p.name).rc)>>
                   ELSE <<>>
             \* the second assignment to luks_is_open replaces the first
             luks_is_open == IF p.name # None THEN qn.val # None
                             ELSE qd.val # None
         IN  IF qd.raised # "" THEN Decision("ERROR", qd.raised, cd)
             ELSE IF qn.raised # "" THEN Decision("ERROR", qn.raised, cd \o cn)
             ELSE Decision(IF luks_is_open THEN "RUN" ELSE "SKIP", "",
                           cd \o cn)

\* luks_add_key that looks at state before the three preconditions
luks_add_key_AbsentFirst(p) ==
    IF p.state = "absent"
    THEN Decision("ABORT", MsgAbsentAddKey, <<>>)
    ELSE IF p.device = None \/ p.key = None \/ p.new_key = None
    THEN Decision("SKIP", "", <<>>)
    ELSE Decision("RUN", "", <<>>)

luks_add_key(p) ==
    IF p.device = None \/ p.key = None \/ p.new_key = None
    THEN Decision("SKIP", "", <<>>)
    ELSE IF p.state = "absent"
    THEN Decision("ABORT", MsgAbsentAddKey, <<>>)
    ELSE Decision("RUN", "", <<>>)

\* luks_remove_key that never reports the contradiction
luks_remove_key_NoAbort(p) ==
    IF p.device = None \/ p.remove_key = None
    THEN Decision("SKIP", "", <<>>)
    ELSE Decision("RUN", "", <<>>)

luks_remove_key(p) ==
    IF p.device = None \/ p.remove_key = None
    THEN Decision("SKIP", "", <<>>)
    ELSE IF p.state = "absent"
    THEN Decision("ABORT", MsgAbsentRemoveKey, <<>>)
    ELSE Decision("RUN", "", <<>>)

\* luks_remove that does not ask whether the device is a container
luks_remove_NoIsLuks(p) ==
    IF p.device # None /\ p.state = "absent"
    THEN Decision("RUN", "", <<>>)
    ELSE Decision("SKIP", "", <<>>)

luks_remove(p) ==
    IF p.device # None /\ p.state = "absent"
    THEN Decision(IF is_luks(p.device) THEN "RUN" ELSE "SKIP", "",
                  <<Cmd("luks_remove", "isLuks", p.device, None,
                        CryptsetupIsLuks(p.device))>>)
    ELSE Decision("SKIP", "", <<>>)

(***************************************************************************)
(* System states the module can meet                                       *)
(***************************************************************************)
\* mappings sit on LUKS devices and names are unique among open mappings
SystemOK(luks, opn) ==
    /\ \A d \in Devices : opn[d] # None => d \in luks
    /\ \A d1, d2 \in Devices :
          (opn[d1] # None /\ opn[d1] = opn[d2]) => d1 = d2

NoRet == [pred |-> "none", res |-> "none", msg |-> ""]

\* no patched _run_command
NoMock == [rc |-> 0, out |-> <<>>]

InitSystem ==
    /\ isLuks \in SUBSET Devices
    /\ opened \in [Devices -> Opt(LiveNames)]
    /\ \A d \in Devices : opened[d] \in Opt(Names \cup {"luks-" \o UUIDOf(d)})
    /\ SystemOK(isLuks, opened)

NoArgs ==
    [device |-> None, state |-> None, open |-> None, name |-> None,
     key |-> None, new_key |-> None, remove_key |-> None]

(***************************************************************************)
(* SpecCond: one Conditions method called with module.params = args        *)
(***************************************************************************)
InitCond ==
    /\ InitSystem
    /\ args \in UnitParams
    /\ pc = "unit"
    /\ result = [changed |-> FALSE, name |-> None]
    /\ outcome = "none"
    /\ msg = ""
    /\ cmds = <<>>
    /\ sys0 = [isLuks |-> isLuks, opened |-> opened]
    /\ rerun = FALSE
    /\ local = None
    /\ ret = NoRet
    /\ mock = NoMock

Returned(pred, d) ==
    /\ pc = "unit"
    /\ pc' = "returned"
    /\ ret' = [pred |-> pred, res |-> d.res, msg |-> d.msg]
    /\ cmds' = d.cmds
    /\ UNCHANGED <<args, isLuks, opened, result, outcome, msg, sys0, rerun,
                   local, mock>>

Call_luks_create == Returned("luks_create", luks_create(args))

Call_luks_open == \E ok \in BOOLEAN : Returned("luks_open", luks_open(args, ok))

Call_luks_close ==
    \E ok \in BOOLEAN : Returned("luks_close", luks_close(args, ok))

Call_luks_add_key == Returned("luks_add_key", luks_add_key(args))

Call_luks_remove_key == Returned("luks_remove_key", luks_remove_key(args))

Call_luks_remove == Returned("luks_remove", luks_remove(args))

NextCond ==
    \/ Call_luks_create
    \/ Call_luks_open
    \/ Call_luks_close
    \/ Call_luks_add_key
    \/ Call_luks_remove_key
    \/ Call_luks_remove

SpecCond == InitCond /\ [][NextCond]_vars

(***************************************************************************)
(* SpecQuery: one CryptHandler query called with _run_command patched to   *)
(* return a given result (as the tests of the CryptHandler methods do)     *)
(***************************************************************************)
MockRows ==
    {<<>>, <<[f1 |-> "type:", f2 |-> "LUKS1"]>>}
    \cup {<<[f1 |-> "loop", f2 |-> d]>> : d \in Devices}
    \cup {<<[f1 |-> "crypt", f2 |-> n]>> : n \in LiveNames}
    \cup {<<[f1 |-> "loop", f2 |-> d], [f1 |-> "crypt", f2 |-> n]>> :
             d \in Devices, n \in Names}
    \cup {<<[f1 |-> "device:", f2 |-> d]>> : d \in Devices}
    \cup {<<[f1 |-> "type:", f2 |-> "LUKS1"], [f1 |-> "device:", f2 |-> d]>> :
             d \in Devices}

MockResults == [rc : {0, 1, 4}, out : MockRows]

InitQuery ==
    /\ isLuks = {}
    /\ opened = [d \in Devices |-> None]
    /\ args = NoArgs
    /\ pc = "unit"
    /\ result = [changed |-> FALSE, name |-> None]
    /\ outcome = "none"
    /\ msg = ""
    /\ cmds = <<>>
    /\ sys0 = [isLuks |-> isLuks, opened |-> opened]
    /\ rerun = FALSE
    /\ local = None
    /\ ret = NoRet
    /\ mock = NoMock

QueryReturned(query, r, val, raised) ==
    /\ pc = "unit"
    /\ pc' = "returned"
    /\ mock' = r
    /\ ret' = [pred |-> query, res |-> val, msg |-> raised]
    /\ UNCHANGED <<args, isLuks, opened, result, outcome, msg, cmds, sys0,
                   rerun, local>>

Call_is_luks ==
    \E r \in MockResults :
      QueryReturned("is_luks", r,
                    IF is_luks_result(r) THEN "True" ELSE "False", "")

Call_get_container_name_by_device ==
    \E r \in MockResults :
      QueryReturned("get_container_name_by_device", r,
                    name_by_device_result(r).val,
                    name_by_device_result(r).raised)

Call_get_container_device_by_name ==
    \E r \in MockResults :
      QueryReturned("get_container_device_by_name", r,
                    device_by_name_result(r).val,
                    device_by_name_result(r).raised)

NextQuery ==
    \/ Call_is_luks
    \/ Call_get_container_name_by_device
    \/ Call_get_container_device_by_name

SpecQuery == InitQuery /\ [][NextQuery]_vars

(***************************************************************************)
(* Spec: run_module, one run after another                                 *)
(***************************************************************************)
params == module_args(args)

MsgInvalidState == "Invalid 'state' value"
MsgCryptDevError == "crypt_dev error"

Init ==
    /\ InitSystem
    /\ args = NoArgs
    /\ pc = "idle"
    /\ result = [changed |-> FALSE, name |-> None]
    /\ outcome = "none"
    /\ msg = ""
    /\ cmds = <<>>
    /\ sys0 = [isLuks |-> isLuks, opened |-> opened]
    /\ rerun = FALSE
    /\ local = None
    /\ ret = NoRet
    /\ mock = NoMock

\* the run ends here: fail_json (exits the process) or an exception that
\* nothing catches
Finish(how, m, c) ==
    /\ pc' = "done"
    /\ outcome' = how
    /\ msg' = m
    /\ cmds' = cmds \o c
    /\ UNCHANGED <<args, isLuks, opened, result, sys0, rerun, local, ret, mock>>

\* the run goes on to the next statement
Goto(next, c, luks, opn, res) ==
    /\ pc' = next
    /\ cmds' = cmds \o c
    /\ isLuks' = luks
    /\ opened' = opn
    /\ result' = res
    /\ UNCHANGED <<args, outcome, msg, sys0, rerun, local, ret, mock>>

Begin(from, a, again) ==
    /\ pc = from
    /\ args' = a
    /\ rerun' = again
    /\ pc' = "check_state"
    /\ result' = [changed |-> FALSE, name |-> None]
    /\ outcome' = "none"
    /\ msg' = ""
    /\ cmds' = <<>>
    /\ sys0' = [isLuks |-> isLuks, opened |-> opened]
    /\ local' = None
    /\ UNCHANGED <<isLuks, opened, ret, mock>>

\* a new invocation of the module with any parameters
StartRun == \E a \in Args : Begin("idle", a, FALSE)

\* the same task run again after it succeeded
Rerun == outcome = "exit_json" /\ Begin("done", args, TRUE)

\* the module's process is gone; only the system state stays
ProcessExit ==
    /\ pc = "done"
    /\ pc' = "idle"
    /\ args' = NoArgs
    /\ result' = [changed |-> FALSE, name |-> None]
    /\ outcome' = "none"
    /\ msg' = ""
    /\ cmds' = <<>>
    /\ sys0' = [isLuks |-> isLuks, opened |-> opened]
    /\ rerun' = FALSE
    /\ local' = None
    /\ UNCHANGED <<isLuks, opened, ret, mock>>

CheckState ==
    /\ pc = "check_state"
    /\ IF params.state \notin {None, "present", "absent"}
       THEN Finish("fail_json", MsgInvalidState, <<>>)
       ELSE Goto("create", <<>>, isLuks, opened, result)

\* run_module that chains create and open with elif
StepCreate_ElifOpen ==
    /\ pc = "create"
    /\ LET d == luks_create(params)
       IN  IF d.res = "RUN"
           THEN \E rc \in ToolExits("luksFormat", params.device, None) :
                  LET c == d.cmds \o <<Cmd("run_luks_create", "luksFormat",
                                           params.device, None, rc)>>
                  IN  IF rc # 0
                      THEN Finish("fail_json", MsgCryptDevError, c)
                      ELSE Goto("close", c,
                                IsLuksAfter("luksFormat", params.device),
                                opened, [result EXCEPT !.changed = TRUE])
           ELSE Goto("open", d.cmds, isLuks, opened, result)

StepCreate ==
    /\ pc = "create"
    /\ LET d == luks_create(params)
       IN  IF d.res = "RUN"
           THEN \E rc \in ToolExits("luksFormat", params.device, None) :
                  LET c == d.cmds \o <<Cmd("run_luks_create", "luksFormat",
                                           params.device, None, rc)>>
                  IN  IF rc # 0
                      THEN Finish("fail_json", MsgCryptDevError, c)
                      ELSE Goto("open", c,
                                IsLuksAfter("luksFormat", params.device),
                                opened, [result EXCEPT !.changed = TRUE])
           ELSE Goto("open", d.cmds, isLuks, opened, result)

StepOpen ==
    /\ pc = "open"
    /\ \E ok \in BOOLEAN, uok \in BOOLEAN :
         LET d == luks_open(params, ok)
             g == IF params.name = None
                  THEN generate_luks_name(params.device, uok)
                  ELSE [raised |-> "", val |-> params.name]
             gc == IF params.name = None
                   THEN <<Cmd("generate_luks_name", "lsblk_uuid",
                              params.device, None,
                              LsblkUUID(params.device, uok).rc)>>
                   ELSE <<>>
         IN  CASE d.res = "ABORT" -> Finish("fail_json", d.msg, d.cmds)
               [] d.res = "ERROR" -> Finish("exception", d.msg, d.cmds)
               [] d.res = "SKIP" ->
                     Goto("close", d.cmds, isLuks, opened, result)
               [] d.res = "RUN" ->
                     IF g.raised # ""
                     THEN Finish("fail_json", MsgCryptDevError, d.cmds \o gc)
                     ELSE \E rc \in ToolExits("open", params.device, g.val) :
                            LET c == d.cmds \o gc \o
                                     <<Cmd("run_luks_open", "open",
                                           params.device, g.val, rc)>>
                            IN  IF rc # 0
                                THEN Finish("fail_json", MsgCryptDevError, c)
                                ELSE Goto("close", c, isLuks,
                                          OpenedAfter("open", params.device,
                                                      g.val),
                                          [changed |-> TRUE, name |-> g.val])

StepClose ==
    /\ pc = "close"
    /\ \E ok \in BOOLEAN, ok2 \in BOOLEAN :
         LET d == luks_close(params, ok)
             q == IF params.device # None
                  THEN get_container_name_by_device(params.device, ok2)
                  ELSE [raised |-> "", val |-> params.name]
             qc == IF params.device # None
                   THEN <<Cmd("run_module", "lsblk", params.device, None,
                              LsblkTypeName(params.device, ok2).rc)>>
                   ELSE <<>>
         IN  CASE d.res = "ERROR" -> Finish("exception", d.msg, d.cmds)
               [] d.res = "SKIP" ->
                     Goto("add_key", d.cmds, isLuks, opened, result)
               [] d.res = "RUN" ->
                     IF q.raised # ""
                     THEN Finish("exception", q.raised, d.cmds \o qc)
                     ELSE \E rc \in ToolExits("close", None, q.val) :
                            LET c == d.cmds \o qc \o
                                     <<Cmd("run_luks_close", "close", None,
                                           q.val, rc)>>
                            IN  IF rc # 0
                                THEN Finish("exception", "ValueError", c)
                                ELSE Goto("add_key", c, isLuks,
                                          OpenedAfter("close", None, q.val),
                                          [result EXCEPT !.changed = TRUE])

\* run_module that forgets result['changed'] = True after add key
StepAddKey_NoChanged ==
    /\ pc = "add_key"
    /\ LET d == luks_add_key(params)
       IN  CASE d.res = "ABORT" -> Finish("fail_json", d.msg, d.cmds)
             [] d.res = "SKIP" ->
                   Goto("remove_key", d.cmds, isLuks, opened, result)
             [] d.res = "RUN" ->
                   \E rc \in ToolExits("luksAddKey", params.device, None) :
                     LET c == <<Cmd("run_luks_add_key", "luksAddKey",
                                    params.device, None, rc)>>
                     IN  IF rc # 0
                         THEN Finish("fail_json", MsgCryptDevError, c)
                         ELSE Goto("remove_key", c, isLuks, opened, result)

\* run_module that swallows the ValueError of add key and goes on
StepAddKey_IgnoreFailure ==
    /\ pc = "add_key"
    /\ LET d == luks_add_key(params)
       IN  CASE d.res = "ABORT" -> Finish("fail_json", d.msg, d.cmds)
             [] d.res = "SKIP" ->
                   Goto("remove_key", d.cmds, isLuks, opened, result)
             [] d.res = "RUN" ->
                   \E rc \in ToolExits("luksAddKey", params.device, None) :
                     LET c == <<Cmd("run_luks_add_key", "luksAddKey",
                                    params.device, None, rc)>>
                     IN  IF rc # 0
                         THEN Goto("remove_key", c, isLuks, opened, result)
                         ELSE Goto("remove_key", c, isLuks, opened,
                                   [result EXCEPT !.changed = TRUE])

StepAddKey ==
    /\ pc = "add_key"
    /\ LET d == luks_add_key(params)
       IN  CASE d.res = "ABORT" -> Finish("fail_json", d.msg, d.cmds)
             [] d.res = "SKIP" ->
                   Goto("remove_key", d.cmds, isLuks, opened, result)
             [] d.res = "RUN" ->
                   \E rc \in ToolExits("luksAddKey", params.device, None) :
                     LET c == <<Cmd("run_luks_add_key", "luksAddKey",
                                    params.device, None, rc)>>
                     IN  IF rc # 0
                         THEN Finish("fail_json", MsgCryptDevError, c)
                         ELSE Goto("remove_key", c, isLuks, opened,
                                   [result EXCEPT !.changed = TRUE])

StepRemoveKey ==
    /\ pc = "remove_key"
    /\ LET d == luks_remove_key(params)
       IN  CASE d.res = "ABORT" -> Finish("fail_json", d.msg, d.cmds)
             [] d.res = "SKIP" ->
                   Goto("remove", d.cmds, isLuks, opened, result)
             [] d.res = "RUN" ->
                   \E rc \in ToolExits("luksRemoveKey", params.device, None) :
                     LET c == <<Cmd("run_luks_remove_key", "luksRemoveKey",
                                    params.device, None, rc)>>
                     IN  IF rc # 0
                         THEN Finish("fail_json", MsgCryptDevError, c)
                         ELSE Goto("remove", c, isLuks, opened,
                                   [result EXCEPT !.changed = TRUE])

StepRemove ==
    /\ pc = "remove"
    /\ LET d == luks_remove(params)
       IN  IF d.res = "RUN"
           THEN Goto("rm_name", d.cmds, isLuks, opened, result)
           ELSE Goto("exit", d.cmds, isLuks, opened, result)

\* run_luks_remove that wipes without closing
run_luks_remove_branch_WipeOnly(name) == "rm_wipe"

\* run_luks_remove: where it goes once it has the name
run_luks_remove_branch(name) ==
    IF name # None THEN "rm_close" ELSE "rm_wipe"

\* run_luks_remove: name = self.get_container_name_by_device(device)
RmName ==
    /\ pc = "rm_name"
    /\ \E ok \in BOOLEAN :
         LET q == get_container_name_by_device(params.device, ok)
             c == <<Cmd("run_luks_remove", "lsblk", params.device, None,
                        LsblkTypeName(params.device, ok).rc)>>
         IN  IF q.raised # ""
             THEN Finish("exception", q.raised, c)
             ELSE /\ pc' = run_luks_remove_branch(q.val)
                  /\ local' = q.val
                  /\ cmds' = cmds \o c
                  /\ UNCHANGED <<args, isLuks, opened, result, outcome, msg,
                                 sys0, rerun, ret, mock>>

\* run_luks_remove that goes on to wipe after a failed close
RmClose_IgnoreFailure ==
    /\ pc = "rm_close"
    /\ \E rc \in ToolExits("close", None, local) :
         LET c == <<Cmd("run_luks_close", "close", None, local, rc)>>
         IN  Goto("rm_wipe", c, isLuks,
                  IF rc = 0 THEN OpenedAfter("close", None, local)
                  ELSE opened,
                  result)

\* run_luks_remove: self.run_luks_close(name)
RmClose ==
    /\ pc = "rm_close"
    /\ \E rc \in ToolExits("close", None, local) :
         LET c == <<Cmd("run_luks_close", "close", None, local, rc)>>
         IN  IF rc # 0
             THEN Finish("exception", "ValueError", c)
             ELSE Goto("rm_wipe", c, isLuks,
                       OpenedAfter("close", None, local), result)

\* run_luks_remove: wipefs --all device
RmWipe ==
    /\ pc = "rm_wipe"
    /\ \E rc \in ToolExits("wipefs", params.device, None) :
         LET c == <<Cmd("run_luks_remove", "wipefs", params.device, None,
                        rc)>>
         IN  IF rc # 0
             THEN Finish("exception", "ValueError", c)
             ELSE Goto("exit", c, IsLuksAfter("wipefs", params.device),
                       opened, [result EXCEPT !.changed = TRUE])

\* module.exit_json(**result)
Exit ==
    /\ pc = "exit"
    /\ Finish("exit_json", "", <<>>)

Next ==
    \/ StartRun
    \/ Rerun
    \/ ProcessExit
    \/ CheckState
    \/ StepCreate
    \/ StepOpen
    \/ StepClose
    \/ StepAddKey
    \/ StepRemoveKey
    \/ StepRemove
    \/ RmName
    \/ RmClose
    \/ RmWipe
    \/ Exit

Spec == Init /\ [][Next]_vars

\* the run always goes on to its end: nothing blocks a step
FairSpec == Spec /\ WF_vars(Next)

TypeOK ==
    /\ args \in Args
    /\ isLuks \subseteq Devices
    /\ opened \in [Devices -> Opt(LiveNames)]
    /\ result \in [changed : BOOLEAN, name : Opt(LiveNames)]
    /\ outcome \in {"none", "exit_json", "fail_json", "exception"}
    /\ rerun \in BOOLEAN

(***************************************************************************)
(* Properties of the Conditions methods (checked under SpecCond)           *)
(***************************************************************************)
Called(pred) == pc = "returned" /\ ret.pred = pred

\* the name lookup of luks_open / luks_close was issued and exited 0
LsblkAnswered == Len(cmds) >= 1 /\ cmds[1].tool = "lsblk" /\ cmds[1].rc = 0

\* the mapping of that name is open on some device
NameIsOpen(name) == name # None /\ \E d \in Devices : opened[d] = name

\* C1: luks_open with device, key, open=True, state=present decides from
\* the name_by_device query: nothing open -> RUN; open under the declared
\* name -> SKIP; open under another name -> ABORT.
C1_OpenDecidesFromLiveName ==
    (/\ Called("luks_open")
     /\ args.device # None /\ args.key # None
     /\ args.open = "True" /\ args.state = "present"
     /\ LsblkAnswered)
    => /\ cmds = <<Cmd("luks_open", "lsblk", args.device, None, 0)>>
       /\ opened[args.device] = None => ret.res = "RUN"
       /\ (opened[args.device] # None /\ opened[args.device] = args.name)
             => ret.res = "SKIP"
       /\ (opened[args.device] # None /\ opened[args.device] # args.name)
             => ret.res = "ABORT" /\ ret.msg = MsgDifferentName

C1_Witness ==
    /\ Called("luks_open")
    /\ args.device # None /\ args.key # None
    /\ args.open = "True" /\ args.state = "present"
    /\ args.name # None
    /\ opened[args.device] \notin {None, args.name}
    /\ ret.res = "ABORT"

\* C2 (as claimed): luks_close with device and name both supplied returns
\* RUN if either query resolves a live mapping and SKIP only if neither does.
C2_CloseRunsIfEitherResolves ==
    (/\ Called("luks_close")
     /\ args.device # None /\ args.name # None
     /\ args.open = "False" /\ args.state = "present"
     /\ LsblkAnswered)
    => (ret.res = "RUN"
          <=> (opened[args.device] # None \/ NameIsOpen(args.name)))
       /\ ret.res \in {"RUN", "SKIP"}

\* C6: luks_create returns RUN exactly when device and key are supplied,
\* state is present and the device is not a container; otherwise SKIP.
C6_CreateExactlyWhen ==
    Called("luks_create")
    => /\ ret.res \in {"RUN", "SKIP"}
       /\ ret.res = "RUN"
            <=> /\ args.device # None /\ args.key # None
                /\ args.state = "present"
                /\ args.device \notin isLuks

C6_Witness ==
    /\ Called("luks_create")
    /\ ret.res = "RUN"
    /\ args.key # None /\ args.device \notin isLuks

\* C7: luks_remove returns RUN exactly when device is supplied, state is
\* absent and the device is a container; absent on a non-container is SKIP.
C7_RemoveExactlyWhen ==
    Called("luks_remove")
    => /\ ret.res \in {"RUN", "SKIP"}
       /\ ret.res = "RUN"
            <=> /\ args.device # None
                /\ args.state = "absent"
                /\ args.device \in isLuks

C7_Witness ==
    /\ Called("luks_remove")
    /\ args.device # None /\ args.state = "absent"
    /\ args.device \notin isLuks
    /\ ret.res = "SKIP"

\* C8: luks_open with device, key, open=True and state=absent ABORTs,
\* whatever is open, and issues no query before that.
C8_OpenAbsentAborts ==
    (/\ Called("luks_open")
     /\ args.device # None /\ args.key # None
     /\ args.open = "True" /\ args.state = "absent")
    => /\ ret.res = "ABORT"
       /\ ret.msg = MsgAbsentOpen
       /\ cmds = <<>>

C8_Witness ==
    /\ Called("luks_open")
    /\ args.device # None /\ args.key # None
    /\ args.open = "True" /\ args.state = "absent"
    /\ opened[args.device] # None
    /\ ret.res = "ABORT"

\* C9: luks_open returns SKIP and issues no query when device or key is
\* not supplied or open is false, also when state is absent.
C9_OpenSkipsOnMissingPrecondition ==
    (/\ Called("luks_open")
     /\ (args.device = None \/ args.key = None \/ args.open = "False"))
    => ret.res = "SKIP" /\ cmds = <<>>

C9_Witness ==
    /\ Called("luks_open")
    /\ args.device # None /\ args.key = None
    /\ args.open = "True" /\ args.state = "absent"
    /\ ret.res = "SKIP"

\* C10 (as claimed): luks_open returns SKIP when open is not supplied
\* (None), as it does when open is false.
C10_OpenSkipsWhenOpenNotSupplied ==
    (/\ Called("luks_open")
     /\ args.open = None
     /\ \A i \in 1..Len(cmds) : cmds[i].rc = 0)
    => ret.res = "SKIP"

\* C11: luks_close returns SKIP, and asks nothing, when neither device nor
\* name is supplied, or open is true, or state is absent; it never ABORTs.
C11_CloseSkipsOnMissingPrecondition ==
    Called("luks_close")
    => /\ ret.res # "ABORT"
       /\ ((args.device = None /\ args.name = None)
           \/ args.open = "True" \/ args.state = "absent")
          => (ret.res = "SKIP" /\ cmds = <<>>)

C11_Witness ==
    /\ Called("luks_close")
    /\ args.device # None /\ args.name # None
    /\ args.open = "False" /\ args.state = "absent"
    /\ opened[args.device] = args.name
    /\ ret.res = "SKIP"

\* C13: luks_add_key with device, key and new_key supplied returns RUN if
\* state is present and ABORTs if state is absent; with any of the three
\* missing it returns SKIP, also when state is absent.  It asks nothing.
C13_AddKeyDecision ==
    Called("luks_add_key")
    => /\ cmds = <<>>
       /\ IF args.device # None /\ args.key # None /\ args.new_key # None
          THEN /\ args.state = "present" => ret.res = "RUN"
               /\ args.state = "absent"
                    => ret.res = "ABORT" /\ ret.msg = MsgAbsentAddKey
          ELSE ret.res = "SKIP"

C13_Witness ==
    /\ Called("luks_add_key")
    /\ args.device # None /\ args.key = None /\ args.new_key # None
    /\ args.state = "absent"
    /\ ret.res = "SKIP"

\* C14: luks_remove_key with device and remove_key supplied returns RUN if
\* state is present and ABORTs if state is absent; with either missing it
\* returns SKIP, also when state is absent.  It asks nothing.
C14_RemoveKeyDecision ==
    Called("luks_remove_key")
    => /\ cmds = <<>>
       /\ IF args.device # None /\ args.remove_key # None
          THEN /\ args.state = "present" => ret.res = "RUN"
               /\ args.state = "absent"
                    => ret.res = "ABORT" /\ ret.msg = MsgAbsentRemoveKey
          ELSE ret.res = "SKIP"

C14_Witness ==
    /\ Called("luks_remove_key")
    /\ args.device # None /\ args.remove_key # None
    /\ args.state = "absent"
    /\ ret.res = "ABORT"

(***************************************************************************)
(* Properties of run_module (checked under Spec)                           *)
(***************************************************************************)
\* the imperative commands of the run so far
Executed == {i \in 1..Len(cmds) : cmds[i].tool \in ImperativeTools}

\* C3 (as claimed): a second run with the same parameters after a
\* successful run finds every predicate SKIP, executes no action and
\* reports changed=false.
C3_SecondRunChangesNothing ==
    rerun => /\ Executed = {}
             /\ outcome # "fail_json"
             /\ ~result.changed

\* C4: a run that ends with a contradiction ABORT has executed no
\* imperative action and has left the system as it found it.
C4_AbortBeforeAnyAction ==
    (outcome = "fail_json" /\ msg \in ContradictionMsgs)
    => /\ Executed = {}
       /\ isLuks = sys0.isLuks
       /\ opened = sys0.opened

C4_Witness ==
    /\ outcome = "fail_json"
    /\ msg = MsgDifferentName
    /\ params.state = "present" /\ params.key # None

\* C5: run_luks_remove on a device with an open container closes it and
\* then wipes; it never wipes while the container is open, never wipes
\* after a failed close, and only wipes when nothing is open.
C5_CloseThenWipe ==
    /\ pc = "rm_wipe" => opened[params.device] = None
    /\ \A i \in 1..Len(cmds) :
         cmds[i].tool = "wipefs"
         => /\ i > 1
            /\ cmds[i].dev = params.device
            /\ IF sys0.opened[params.device] # None
               THEN cmds[i - 1] = Cmd("run_luks_close", "close", None,
                                      sys0.opened[params.device], 0)
               ELSE /\ cmds[i - 1] = Cmd("run_luks_remove", "lsblk",
                                         params.device, None, 0)
                    /\ \A j \in 1..Len(cmds) : cmds[j].tool # "close"
    /\ \A i, j \in 1..Len(cmds) :
         (cmds[i].tool = "close" /\ cmds[i].rc # 0) => cmds[j].tool # "wipefs"

C5_Witness ==
    /\ params.device # None
    /\ sys0.opened[params.device] # None
    /\ \E i \in 1..Len(cmds) : cmds[i].tool = "wipefs" /\ cmds[i].rc = 0
    /\ opened[params.device] = None

\* the mapping of that name was open when the run started
NameWasOpen(name) == name # None /\ \E d \in Devices : sys0.opened[d] = name

\* the mappings of the run's start without the one called name
WithoutName(name) ==
    [d \in Devices |->
        IF sys0.opened[d] = name THEN None ELSE sys0.opened[d]]

\* positions of the queries that luks_close issued in this run
CloseQueries == {i \in 1..Len(cmds) : cmds[i].by = "luks_close"}

\* C12: with only a name, open=False and state=present, luks_close is RUN
\* iff device_by_name(name) resolves, and the run then closes the mapping of
\* that name and no other; with only a device it is RUN iff
\* name_by_device(device) resolves.
C12_CloseByNameOrByDevice ==
    /\ (/\ params.device = None /\ params.name # None
        /\ params.open = "False" /\ params.state = "present"
        /\ Len(cmds) >= 1)
       => /\ cmds[1] = Cmd("luks_close", "status", None, params.name,
                           IF NameWasOpen(params.name) THEN 0 ELSE 4)
          /\ IF NameWasOpen(params.name)
             THEN /\ Len(cmds) >= 2
                  /\ cmds[2].tool = "close"
                  /\ cmds[2].name = params.name
                  /\ opened = IF cmds[2].rc = 0
                              THEN WithoutName(params.name)
                              ELSE sys0.opened
             ELSE /\ Executed = {}
                  /\ opened = sys0.opened
    /\ (/\ params.device # None /\ params.name = None
        /\ params.open = "False" /\ params.state = "present")
       => \A i \in CloseQueries :
            cmds[i].rc = 0
            => IF sys0.opened[params.device] # None
               THEN /\ Len(cmds) > i
                    /\ cmds[i + 1] = Cmd("run_module", "lsblk",
                                         params.device, None,
                                         cmds[i + 1].rc)
                    /\ cmds[i + 1].rc = 0
                         => /\ cmds[i + 2].tool = "close"
                            /\ cmds[i + 2].name = sys0.opened[params.device]
               ELSE \A j \in 1..Len(cmds) : cmds[j].tool # "close"

C12_Witness ==
    /\ params.device = None /\ params.name # None
    /\ params.open = "False" /\ params.state = "present"
    /\ outcome = "exit_json"
    /\ NameWasOpen(params.name)
    /\ \E d \in Devices : opened[d] # None
    /\ opened = WithoutName(params.name)

\* the place of an executed command in run_module's order of actions; the
\* close that run_luks_remove issues belongs to the destroy action
ActionRank(i) ==
    CASE cmds[i].tool = "luksFormat" -> 1
      [] cmds[i].tool = "open" -> 2
      [] cmds[i].tool = "close" ->
            IF \E j \in 1..(i - 1) : cmds[j].by = "run_luks_remove"
            THEN 6 ELSE 3
      [] cmds[i].tool = "luksAddKey" -> 4
      [] cmds[i].tool = "luksRemoveKey" -> 5
      [] cmds[i].tool = "wipefs" -> 6
      [] OTHER -> 0

\* C15: the actions of a run are executed in the order create, open,
\* close, add-key, remove-key, destroy, each at most once, and a predicate
\* sees the effect of the actions before it: a successful run with device,
\* key, open=True, state=present on a device without container creates,
\* then asks for the name, then opens, and ends with the container open.
C15_FixedOrderCreateThenOpen ==
    /\ \A i, j \in Executed :
         i < j => \/ ActionRank(i) < ActionRank(j)
                  \/ /\ ActionRank(i) = 6 /\ ActionRank(j) = 6
                     /\ cmds[i].tool = "close" /\ cmds[j].tool = "wipefs"
    /\ (/\ outcome = "exit_json"
        /\ params.device # None /\ params.key # None
        /\ params.open = "True" /\ params.state = "present"
        /\ params.device \notin sys0.isLuks)
       => \E i, k, j \in 1..Len(cmds) :
            /\ i < k /\ k < j
            /\ cmds[i] = Cmd("run_luks_create", "luksFormat", params.device,
                             None, 0)
            /\ cmds[k] = Cmd("luks_open", "lsblk", params.device, None, 0)
            /\ cmds[j].tool = "open" /\ cmds[j].rc = 0
            /\ cmds[j].dev = params.device
            /\ cmds[j].name # None
            /\ opened[params.device] = cmds[j].name
            /\ params.device \in isLuks

C15_Witness ==
    /\ outcome = "exit_json"
    /\ params.device # None /\ params.key # None
    /\ params.open = "True" /\ params.state = "present"
    /\ params.device \notin sys0.isLuks
    /\ params.new_key # None
    /\ opened[params.device] # None

\* C16: changed starts false, is never reset within a run, and at the
\* successful end of a run it is true iff an imperative action was executed.
C16_ChangedIffActionExecuted ==
    /\ [](/\ pc = "check_state" => ~result.changed
          /\ outcome = "exit_json" => (result.changed <=> Executed # {}))
    /\ [][(result.changed /\ pc' \notin {"check_state", "idle"})
             => result'.changed]_vars

C16_Witness ==
    /\ outcome = "exit_json"
    /\ result.changed
    /\ \E i \in Executed : cmds[i].tool = "luksAddKey"

\* C17 (as claimed): a successful run with open=True, device and key
\* returns the name under which the device's container is open at the end:
\* the declared name if one is supplied, else the generated one.
C17_ReturnedNameIsLiveName ==
    (/\ outcome = "exit_json"
     /\ params.device # None /\ params.key # None
     /\ params.open = "True")
    => /\ result.name # None
       /\ result.name = opened[params.device]
       /\ result.name = IF params.name # None THEN params.name
                        ELSE "luks-" \o UUIDOf(params.device)

\* the effects of the commands that exited 0 before position i are in place
EarlierEffectsRemain(i) ==
    \A j \in 1..(i - 1) :
      cmds[j].rc = 0
      => /\ cmds[j].tool = "luksFormat" => cmds[j].dev \in isLuks
         /\ cmds[j].tool = "open" => opened[cmds[j].dev] = cmds[j].name
         /\ cmds[j].tool = "close"
              => \A d \in Devices : opened[d] # cmds[j].name

\* C18: when the tool of an imperative action exits non-zero the run stops
\* there: nothing is issued after it, the run has ended without a success
\* result, and the effects of the earlier actions stay.
C18_ToolFailureStopsRun ==
    \A i \in Executed :
      cmds[i].rc # 0
      => /\ i = Len(cmds)
         /\ pc = "done"
         /\ outcome \in {"fail_json", "exception"}
         /\ EarlierEffectsRemain(i)

C18_Witness ==
    /\ Len(cmds) >= 2
    /\ \E j \in 1..(Len(cmds) - 1) :
          cmds[j].tool = "luksFormat" /\ cmds[j].rc = 0
    /\ cmds[Len(cmds)].tool = "open" /\ cmds[Len(cmds)].rc # 0
    /\ params.device \in isLuks
    /\ params.device \notin sys0.isLuks
    /\ outcome = "fail_json"

\* C19 (as claimed): every run that does not succeed ends in fail_json
\* with a message, never in an exception that nothing handles, and never
\* with a changed report.
C19_AbortsReachHostThroughFailJson ==
    pc = "done"
    => /\ outcome \in {"exit_json", "fail_json"}
       /\ outcome = "fail_json" => msg # ""

\* the run repeats a successful run that declared device, key, open=True,
\* state=present and no name
AutoNameRerun ==
    /\ rerun
    /\ params.device # None /\ params.key # None
    /\ params.open = "True" /\ params.state = "present"
    /\ params.name = None

\* C21: a run that repeats a successful run with device, key, open=True,
\* state=present and no name finds the container open under the generated
\* name, executes nothing, and once luks_open's name query has answered
\* it ends in fail_json with 'already opened under different name'.
C21_AutoNameRerunAborts ==
    AutoNameRerun
    => /\ sys0.opened[params.device] = "luks-" \o UUIDOf(params.device)
       /\ opened = sys0.opened
       /\ Executed = {}
       /\ pc \in {"check_state", "create", "open", "done"}
       /\ pc = "done"
            => /\ cmds[Len(cmds)].by = "luks_open"
               /\ IF cmds[Len(cmds)].rc = 0
                  THEN outcome = "fail_json" /\ msg = MsgDifferentName
                  ELSE outcome = "exception"

C21_Witness ==
    /\ AutoNameRerun
    /\ outcome = "fail_json"
    /\ msg = MsgDifferentName
    /\ opened[params.device] = "luks-" \o UUIDOf(params.device)

\* luks_open returned RUN in this run: run_module went on to name and open
OpenRan ==
    \E i \in 1..Len(cmds) :
      cmds[i].by \in {"generate_luks_name", "run_luks_open"}

\* luks_close returned RUN in this run: run_module went on to look up the
\* name and close
CloseRan ==
    \E i \in 1..Len(cmds) :
      \/ cmds[i].by = "run_module"
      \/ /\ cmds[i].by = "run_luks_close"
         /\ \A j \in 1..(i - 1) : cmds[j].by # "run_luks_remove"

\* C22: no run executes both the open action and the close action, whether
\* open is given as true, as false or not at all: luks_open and luks_close
\* never both return RUN in one run, and at most one of them gets as far as
\* asking the system.
C22_NeverOpenAndClose ==
    /\ ~(OpenRan /\ CloseRan)
    /\ ~(\E i, j \in 1..Len(cmds) :
            cmds[i].by = "luks_open" /\ cmds[j].by = "luks_close")
    /\ args.open \in {None, "False"} => ~OpenRan
    /\ args.open = "True" => ~CloseRan

C22_Witness ==
    /\ args.open = None
    /\ args.device # None /\ args.key # None
    /\ outcome = "exit_json"
    /\ CloseRan
    /\ sys0.opened[args.device] # None
    /\ opened[args.device] = None

\* positions of the close commands of run_module's close action
CloseActions ==
    {i \in 1..Len(cmds) :
        /\ cmds[i].by = "run_luks_close"
        /\ \A j \in 1..(i - 1) : cmds[j].by # "run_luks_remove"}

\* C23 (as claimed): the name that the close action hands to
\* run_luks_close is never None, is the name of a mapping that is open at
\* that moment, and is the mapping of the declared device or the declared
\* name, also when device and name refer to different mappings.
C23_CloseGetsLiveDeclaredName ==
    \A i \in CloseActions :
      /\ cmds[i].name # None
      /\ NameWasOpen(cmds[i].name)
      /\ \/ cmds[i].name = params.name
         \/ /\ params.device # None
            /\ cmds[i].name = sys0.opened[params.device]

\* C24: no stale mapping.  From a system in which every open mapping sits
\* on a device with a container header, every state that any sequence of
\* runs reaches (successful, aborted or failed part-way) has that property,
\* and a device that a run has wiped has no mapping on it.
C24_NoStaleMapping ==
    /\ \A d \in Devices : opened[d] # None => d \in isLuks
    /\ \A i \in 1..Len(cmds) :
         (cmds[i].tool = "wipefs" /\ cmds[i].rc = 0)
         => opened[cmds[i].dev] = None

C24_Witness ==
    /\ pc = "done"
    /\ params.device # None
    /\ sys0.opened[params.device] # None
    /\ Len(cmds) >= 1
    /\ cmds[Len(cmds)] = Cmd("run_luks_remove", "wipefs", params.device,
                             None, 0)
    /\ params.device \notin isLuks
    /\ \E d \in Devices : opened[d] # None /\ d \in isLuks

\* C25 (as claimed): a successful run with state=present, open given as
\* false and a device leaves no container open on that device, with or
\* without a name and whatever the name resolves to.
C25_CloseConverges ==
    (/\ outcome = "exit_json"
     /\ params.state = "present"
     /\ args.open = "False"
     /\ params.device # None)
    => opened[params.device] = None

\* every lsblk query of the run so far was answered (exit 0)
LsblkQueriesAnswered ==
    \A i \in 1..Len(cmds) :
      cmds[i].tool \in {"lsblk", "lsblk_uuid"} => cmds[i].rc = 0

\* C26 (as claimed): a run that repeats a successful run whose parameters
\* have no new_key and no remove_key, and have a name whenever open is
\* true, executes no action, does not abort or fail, and reports
\* changed=false.
C26_RestrictedIdempotence ==
    (/\ rerun
     /\ args.new_key = None /\ args.remove_key = None
     /\ params.open = "True" => params.name # None
     /\ LsblkQueriesAnswered)
    => /\ Executed = {}
       /\ outcome \notin {"fail_json", "exception"}
       /\ ~result.changed

(***************************************************************************)
(* Properties of the CryptHandler queries (checked under SpecQuery)        *)
(***************************************************************************)
HasRow(word) == \E i \in 1..Len(mock.out) : mock.out[i].f1 = word

\* C20 (as claimed): no query raises for 'not found': is_luks is false on
\* a non-zero exit and never fails; name_by_device is None on exit 0
\* without a crypt row and fails only on a non-zero exit; device_by_name is
\* None on a non-zero exit and, on exit 0, the path of the device: row or
\* None when there is no such row.
C20_QueriesNeverRaiseForNotFound ==
    /\ Called("is_luks")
       => /\ ret.msg = ""
          /\ mock.rc # 0 => ret.res = "False"
    /\ Called("get_container_name_by_device")
       => /\ (mock.rc = 0 /\ ~HasRow("crypt"))
                => (ret.res = None /\ ret.msg = "")
          /\ ret.msg # "" => mock.rc # 0
    /\ Called("get_container_device_by_name")
       => /\ ret.msg = ""
          /\ mock.rc # 0 => ret.res = None
          /\ (mock.rc = 0 /\ ~HasRow("device:")) => ret.res = None
          /\ (mock.rc = 0 /\ HasRow("device:")) => ret.res \in Devices

====
